---- MODULE Spec2Model ----
(***************************************************************************)
(* Model of create_rss_feed.py: main() runs load_config, get_programs and  *)
(* build_rss_feed in sequence inside one try/except.  Text is modelled as  *)
(* sequences of one-character strings so that the regular expressions,     *)
(* urljoin, the substring test and the string comparison of the sort are   *)
(* computed as the code computes them.  An optional value (None in the     *)
(* code, an unset variable, a missing key) is a sequence of length 0 or 1. *)
(***************************************************************************)
EXTENDS Integers, Sequences, FiniteSets, TLC

\* ------------------------------------------------------------------ bounds
\* Largest number of <a> elements on the listing page.
MaxAnchors == 2
\* Largest number of configuration keys whose (file, environment) pair
\* differs from the nominal one (value in the file, variable unset).
MaxOverrides == 1

\* ------------------------------------------------------------------ text
None == <<>>
Some(x) == <<x>>
IsNone(o) == Len(o) = 0
Val(o) == o[1]

Range(s) == {s[i] : i \in 1..Len(s)}

Digits == {"0", "1", "2", "3", "4", "5", "6", "7", "8", "9"}

\* Code point of a character (the order Python compares strings by).
Ord(c) ==
  CASE c = "-" -> 45
    [] c = "0" -> 48 [] c = "1" -> 49 [] c = "2" -> 50 [] c = "3" -> 51
    [] c = "4" -> 52 [] c = "5" -> 53 [] c = "6" -> 54 [] c = "7" -> 55
    [] c = "8" -> 56 [] c = "9" -> 57
    [] OTHER -> 63

EndsWith(s, suffix) ==
  /\ Len(s) >= Len(suffix)
  /\ SubSeq(s, Len(s) - Len(suffix) + 1, Len(s)) = suffix

StartsWith(s, prefix) ==
  /\ Len(s) >= Len(prefix)
  /\ SubSeq(s, 1, Len(prefix)) = prefix

\* Python's  sub in s .
Contains(s, sub) ==
  \E i \in 1..(Len(s) + 1) :
    /\ i + Len(sub) - 1 <= Len(s)
    /\ SubSeq(s, i, i + Len(sub) - 1) = sub

\* Index of the last "/" of s (0 when there is none).
RECURSIVE LastSlashUpTo(_, _)
LastSlashUpTo(s, i) ==
  IF i = 0 \/ s[i] = "/" THEN i ELSE LastSlashUpTo(s, i - 1)
LastSlash(s) == LastSlashUpTo(s, Len(s))

\* urllib.parse.urljoin for the references the pages hold: an absolute
\* reference replaces the base, a relative one replaces its last segment.
urljoin(base, ref) ==
  IF StartsWith(ref, <<"h","t","t","p",":","/","/">>)
  THEN ref
  ELSE SubSeq(base, 1, LastSlash(base)) \o ref

\* ftfy.fix_encoding: repairs UTF-8 text that was decoded as Latin-1
\* (the two characters "Ã©" stand for one "é"); other text is unchanged.
RECURSIVE fix_encoding(_)
fix_encoding(s) ==
  IF Len(s) = 0 THEN <<>>
  ELSE IF Len(s) >= 2 /\ s[1] = "Ã" /\ s[2] = "©"
       THEN <<"é">> \o fix_encoding(SubSeq(s, 3, Len(s)))
       ELSE <<s[1]>> \o fix_encoding(Tail(s))

\* The % operator with a format of nfmt "%s" conversions.  A right operand
\* that is not a tuple counts as one argument.
PercentFormat(fmt, nfmt, args) ==
  IF Len(args) < nfmt
  THEN [ok |-> FALSE, fmt |-> "not enough arguments for format string", args |-> <<>>]
  ELSE IF Len(args) > nfmt
  THEN [ok |-> FALSE, fmt |-> "not all arguments converted during string formatting",
        args |-> <<>>]
  ELSE [ok |-> TRUE, fmt |-> fmt, args |-> args]

\* ------------------------------------------------------------------ config
\* The five keys of config.json and of the environment.
START_URL == "START_URL"
OUTPUT_FILE == "OUTPUT_FILE"
PROGRAM_TITLE == "PROGRAM_TITLE"
PROGRAM_URL == "PROGRAM_URL"
PROGRAM_DESC == "PROGRAM_DESC"

\* The keys in the order load_config assigns them (dict order).
KeyOrder == <<START_URL, OUTPUT_FILE, PROGRAM_TITLE, PROGRAM_URL, PROGRAM_DESC>>
Keys == Range(KeyOrder)

\* The non-empty value a key has in config.json.
FileValue(k) ==
  CASE k = START_URL ->
         <<"h","t","t","p",":","/","/","f","/","l","i","s","t","e",".","p","h","p">>
    [] k = OUTPUT_FILE -> <<"f",".","x","m","l">>
    [] k = PROGRAM_TITLE -> <<"M","r"," ","X">>
    [] k = PROGRAM_URL -> <<"h","t","t","p",":","/","/","f","/">>
    [] k = PROGRAM_DESC -> <<"R","a","d","i","o">>

\* The non-empty value an environment variable has.
EnvValue(k) ==
  CASE k = START_URL ->
         <<"h","t","t","p",":","/","/","e","/","l","i","s","t","e",".","p","h","p">>
    [] k = OUTPUT_FILE -> <<"e",".","x","m","l">>
    [] k = PROGRAM_TITLE -> <<"X">>
    [] k = PROGRAM_URL -> <<"h","t","t","p",":","/","/","e","/">>
    [] k = PROGRAM_DESC -> <<"T","S","F">>


\* os.getenv(name, default): the variable's value when it is set (an
\* empty value is a value), the default only when it is unset.
getenv_skips_empty(env, name, default) ==
  IF IsNone(env[name]) \/ Val(env[name]) = <<>> THEN default ELSE Val(env[name])

getenv(env, name, default) ==
  IF IsNone(env[name]) THEN default ELSE Val(env[name])

\* An exception object: its class and its message (format and arguments).
Exc(type, fmt, args) == [type |-> type, fmt |-> fmt, args |-> args]

\* Lines 27-32.  The default config_file[k] is evaluated before getenv is
\* called, so a key missing from the file raises KeyError whatever the
\* environment holds; the keys are read in KeyOrder.
MissingKeys(file) == {i \in 1..Len(KeyOrder) : IsNone(file[KeyOrder[i]])}

merge_config(file, env) ==
  IF MissingKeys(file) # {}
  THEN LET i == CHOOSE m \in MissingKeys(file) : \A n \in MissingKeys(file) : m <= n
       IN  [ok |-> FALSE, exc |-> Exc("KeyError", "%s", <<KeyOrder[i]>>)]
  ELSE [ok |-> TRUE,
        config |-> [k \in Keys |-> getenv(env, k, Val(file[k]))]]

\* Line 37: the message is built by  '... %s : %s' % value  before the
\* Exception is constructed; value is one string, not a (key, value) tuple.
config_error(value) ==
  LET m == PercentFormat("Incorrect configuration for %s : %s", 2, <<value>>)
  IN  IF m.ok THEN Exc("Exception", m.fmt, m.args)
      ELSE Exc("TypeError", m.fmt, m.args)

\* Lines 35-37: the first value of the dict, in insertion order, whose
\* text is empty raises.
EmptyValues(cfg) == {i \in 1..Len(KeyOrder) : Len(cfg[KeyOrder[i]]) = 0}

check_config_accepts_all(cfg) == [ok |-> TRUE]

check_config(cfg) ==
  IF EmptyValues(cfg) # {}
  THEN LET i == CHOOSE m \in EmptyValues(cfg) : \A n \in EmptyValues(cfg) : m <= n
       IN  [ok |-> FALSE, exc |-> config_error(cfg[KeyOrder[i]])]
  ELSE [ok |-> TRUE]

\* ------------------------------------------------------------------ pages
program_page == <<"d","e","t","a","i","l","_","e","m","i","s","s","i","o","n",".","p","h","p">>

\* href attributes of the <a> elements of the listing page: none at all,
\* a link to another page, a link to a detail page.
ListingHrefs ==
  { None,
    Some(<<"l","i","s","t","e",".","p","h","p">>),
    Some(<<"d","e","t","a","i","l","_","e","m","i","s","s","i","o","n",".","p","h","p","?","i","d","=","1">>) }

Listings == UNION {[1..n -> ListingHrefs] : n \in 0..MaxAnchors}

\* Status codes a server answers with.
StatusCodes == {200, 404, 500}

\* Text of <div id="titre"> and <div id="emission">: no such div, an empty
\* div, or text (the title as the site serves it, mis-decoded).
Titles == {None, Some(<<>>), Some(<<"Ã","©","t","Ã","©">>)}
Descriptions == {None, Some(<<>>), Some(<<"D","o","s","s","i","e","r">>)}

\* href attributes of the anchors of a detail page.
AudioHrefs ==
  { <<"a","_","2","0","2","3","_","0","7","_","0","4",".","m","p","3">>,
    <<"b","_","2","0","2","3","_","0","1","_","0","1",".","m","p","3">>,
    <<"c","_","2","0","2","3","_","1","3","_","4","5",".","m","p","3">>,
    <<"d","_","i","n","v","a","l","i","d",".","m","p","3">>,
    <<"e","_","2","0","2","3","_","0","7","_","0","4",".","M","P","3">> }

DetailPages ==
  [titre : Titles, emission : Descriptions,
   hrefs : {<<>>} \cup {<<h>> : h \in AudioHrefs}]

\* link_regex = re.compile('.*mp3$'), searched in an href.
link_regex(href) == EndsWith(href, <<"m","p","3">>)

\* soup_page.find_all('a', href=link_regex), in document order.
RECURSIVE find_all_links(_)
find_all_links(hrefs) ==
  IF Len(hrefs) = 0 THEN <<>>
  ELSE IF link_regex(Head(hrefs))
       THEN <<Head(hrefs)>> \o find_all_links(Tail(hrefs))
       ELSE find_all_links(Tail(hrefs))

\* Lines 79-87 without the urljoin: the texts and the href BeautifulSoup
\* finds in a detail page (the href None when no anchor matches).
soup(page) ==
  [title |-> IF ~IsNone(page.titre) THEN fix_encoding(Val(page.titre)) ELSE <<>>,
   description |-> IF ~IsNone(page.emission) THEN fix_encoding(Val(page.emission))
                   ELSE <<>>,
   href |-> IF Len(find_all_links(page.hrefs)) > 0
            THEN Some(Head(find_all_links(page.hrefs)))
            ELSE None]

\* What the detail pages parse to.
ParsedPages == {soup(page) : page \in DetailPages}

\* Lines 71-88: the program dict after extraction, its date still None.
extract(parsed, page_url) ==
  [title |-> parsed.title,
   description |-> parsed.description,
   link |-> IF ~IsNone(parsed.href) THEN urljoin(page_url, Val(parsed.href)) ELSE <<>>,
   date |-> None]

\* Line 91.
incomplete_if_all_empty(program) ==
  Len(program.title) = 0 /\ Len(program.description) = 0 /\ Len(program.link) = 0

incomplete(program) ==
  Len(program.title) = 0 \/ Len(program.description) = 0 \/ Len(program.link) = 0

\* Lines 96-99: re.search('.*_(\d{4})_(\d{2})_(\d{2})\.mp3$', link,
\* re.IGNORECASE); the groups when the link matches, None otherwise.
date_search(link) ==
  LET n == Len(link)
      at(i) == link[n - 15 + i]
  IN  IF /\ n >= 15
         /\ at(1) = "_" /\ \A i \in 2..5 : at(i) \in Digits
         /\ at(6) = "_" /\ \A i \in 7..8 : at(i) \in Digits
         /\ at(9) = "_" /\ \A i \in 10..11 : at(i) \in Digits
         /\ at(12) = "."
         /\ at(13) \in {"m", "M"} /\ at(14) \in {"p", "P"} /\ at(15) = "3"
      THEN Some(<<SubSeq(link, n - 13, n - 10), SubSeq(link, n - 8, n - 7),
                  SubSeq(link, n - 5, n - 4)>>)
      ELSE None

\* '-'.join(groups)
join_underscore(groups) ==
  groups[1] \o <<"_">> \o groups[2] \o <<"_">> \o groups[3]

join(groups) ==
  groups[1] \o <<"-">> \o groups[2] \o <<"-">> \o groups[3]


\* ------------------------------------------------------------------ sort
\* Python's  a < b  on two strings.
RECURSIVE StrLess(_, _)
StrLess(a, b) ==
  IF Len(a) = 0 THEN Len(b) > 0
  ELSE IF Len(b) = 0 THEN FALSE
  ELSE IF Ord(a[1]) # Ord(b[1]) THEN Ord(a[1]) < Ord(b[1])
  ELSE StrLess(Tail(a), Tail(b))

\* Position at which p enters a list sorted by date descending: before the
\* first element whose date is smaller, after every element of equal date
\* (sorted(..., reverse=True) keeps equal elements in their first order).
insert_desc(done, p) ==
  LET smaller == {i \in 1..Len(done) : StrLess(Val(done[i].date), Val(p.date))}
      at == IF smaller = {} THEN Len(done) + 1
            ELSE CHOOSE i \in smaller : \A j \in smaller : i <= j
  IN  SubSeq(done, 1, at - 1) \o <<p>> \o SubSeq(done, at, Len(done))

RECURSIVE sort_desc(_)
sort_desc(s) ==
  IF Len(s) = 0 THEN <<>>
  ELSE insert_desc(sort_desc(SubSeq(s, 1, Len(s) - 1)), s[Len(s)])

\* The same with the order reversed (reverse=True left out).
insert_asc(done, p) ==
  LET larger == {i \in 1..Len(done) : StrLess(Val(p.date), Val(done[i].date))}
      at == IF larger = {} THEN Len(done) + 1
            ELSE CHOOSE i \in larger : \A j \in larger : i <= j
  IN  SubSeq(done, 1, at - 1) \o <<p>> \o SubSeq(done, at, Len(done))

RECURSIVE sort_asc(_)
sort_asc(s) ==
  IF Len(s) = 0 THEN <<>>
  ELSE insert_asc(sort_asc(SubSeq(s, 1, Len(s) - 1)), s[Len(s)])

sorted_ascending(progs) ==
  IF Len(progs) >= 2 /\ \E i \in 1..Len(progs) : IsNone(progs[i].date)
  THEN [ok |-> FALSE,
        exc |-> Exc("TypeError", "'<' not supported between instances of %s and %s", <<>>)]
  ELSE [ok |-> TRUE, value |-> sort_asc(progs)]

\* Line 108: sorted(programs, key=lambda p: p['date'], reverse=True).  A
\* list of two or more elements compares every key with another one, and
\* None compares with neither a string nor None.
sorted(progs) ==
  IF Len(progs) >= 2 /\ \E i \in 1..Len(progs) : IsNone(progs[i].date)
  THEN [ok |-> FALSE,
        exc |-> Exc("TypeError", "'<' not supported between instances of %s and %s", <<>>)]
  ELSE [ok |-> TRUE, value |-> sort_desc(progs)]

\* ------------------------------------------------------------------ feed
RECURSIVE Num(_)
Num(s) == IF Len(s) = 0 THEN 0 ELSE 10 * Num(SubSeq(s, 1, Len(s) - 1)) + (Ord(s[Len(s)]) - 48)

IsLeap(y) == (y % 4 = 0 /\ y % 100 # 0) \/ y % 400 = 0

DaysInMonth(y, m) ==
  IF m = 2 THEN (IF IsLeap(y) THEN 29 ELSE 28)
  ELSE IF m \in {4, 6, 9, 11} THEN 30 ELSE 31

\* Line 124: datetime.datetime.strptime(date, '%Y-%m-%d').
strptime(date) ==
  IF IsNone(date)
  THEN [ok |-> FALSE,
        exc |-> Exc("TypeError", "strptime() argument 1 must be str, not None", <<>>)]
  ELSE LET s == Val(date)
           wellFormed ==
             /\ Len(s) = 10 /\ s[5] = "-" /\ s[8] = "-"
             /\ \A i \in {1, 2, 3, 4, 6, 7, 9, 10} : s[i] \in Digits
           y == Num(SubSeq(s, 1, 4))
           m == Num(SubSeq(s, 6, 7))
           d == Num(SubSeq(s, 9, 10))
       IN  IF wellFormed /\ y >= 1 /\ m \in 1..12 /\ d >= 1 /\ d <= DaysInMonth(y, m)
           THEN [ok |-> TRUE, value |-> <<y, m, d>>]
           ELSE [ok |-> FALSE,
                 exc |-> Exc("ValueError", "time data %s does not match format %s", <<s>>)]

\* Lines 123-134: the items built so far, or the first exception.
RECURSIVE rss_items(_)
rss_items(items) ==
  IF Len(items) = 0 THEN [ok |-> TRUE, value |-> <<>>]
  ELSE LET item == Head(items)
           item_date == strptime(item.date)
       IN  IF ~item_date.ok THEN [ok |-> FALSE, exc |-> item_date.exc]
           ELSE LET rest == rss_items(Tail(items))
                IN  IF ~rest.ok THEN rest
                    ELSE [ok |-> TRUE,
                          value |-> <<[title |-> item.title, link |-> item.link,
                                       description |-> item.description,
                                       guid |-> item.link,
                                       pubDate |-> item_date.value]>> \o rest.value]

\* What the output path holds before the run when a file is there.
OldFile == [old |-> TRUE]

\* open(filename, "w") when it fails.
OpenError(filename) == Exc("OSError", "[Errno %s] %s: %s", <<filename>>)

\* The same function with the file opened before the items are built.
build_rss_feed_opens_first(title, link, description, items, filename, file, can_open) ==
  LET built == rss_items(items)
  IN  IF ~can_open
      THEN [ok |-> FALSE, exc |-> OpenError(filename), at |-> "open",
            file |-> file, opened |-> TRUE]
      ELSE IF ~built.ok
      THEN [ok |-> FALSE, exc |-> built.exc, at |-> "strptime",
            file |-> Some(<<>>), opened |-> TRUE]
      ELSE [ok |-> TRUE, opened |-> TRUE,
            file |-> Some([old |-> FALSE, title |-> title, link |-> link,
                           description |-> description, items |-> built.value])]

\* Lines 121-143.  file is what the output path holds, can_open whether
\* open(filename, "w") succeeds; the result says what the path holds
\* afterwards, whether open was called, and the call that raised.
build_rss_feed(title, link, description, items, filename, file, can_open) ==
  LET built == rss_items(items)
  IN  IF ~built.ok
      THEN [ok |-> FALSE, exc |-> built.exc, at |-> "strptime",
            file |-> file, opened |-> FALSE]
      ELSE IF ~can_open
      THEN [ok |-> FALSE, exc |-> OpenError(filename), at |-> "open",
            file |-> file, opened |-> TRUE]
      ELSE [ok |-> TRUE, opened |-> TRUE,
            file |-> Some([old |-> FALSE, title |-> title, link |-> link,
                           description |-> description, items |-> built.value])]


\* ------------------------------------------------------------------ state
VARIABLES
  config_file,     \* config.json: None when absent, else Some(key -> value or None)
  environ,         \* os.environ restricted to the five keys
  preexisting,     \* whether a file is at the output path before the run
  pc,              \* position of main
  config,          \* the dict load_config builds (None before line 28)
  anchors,         \* soup_main.find_all('a'): the href of each anchor or None
  idx,             \* index in anchors of the next loop iteration
  programs,        \* the list get_programs appends to
  program_list,    \* main's program_list (None until get_programs returns)
  log,             \* records emitted through logger
  requests_made,   \* number of requests.get calls issued
  error_response,  \* whether a response carried an error status (4xx, 5xx)
  detail_fetched,  \* number of detail pages received
  lacking,         \* number of them whose extraction left a field empty
  exc,             \* the exception raised in main's try block (None if none)
  escaped,         \* whether that exception left main
  file,            \* what the output path holds (None when no file)
  opened           \* whether open(filename, "w") was called

vars == <<config_file, environ, preexisting, pc, config, anchors, idx, programs,
          program_list, log, requests_made, error_response, detail_fetched, lacking,
          exc, escaped, file, opened>>

Log(level, fmt, args) == [level |-> level, fmt |-> fmt, args |-> args]

\* Classes derived from Exception, the ones  except Exception  catches.
ExceptionClasses ==
  {"Exception", "TypeError", "KeyError", "ValueError", "OSError",
   "FileNotFoundError", "ConnectionError"}

catches_only_exception(e) == e.type = "Exception"

\* Line 152.
catches(e) == e.type \in ExceptionClasses

\* Lines 152-153: main's handler, run on the log written so far.
handler(e, lg) ==
  IF catches(e)
  THEN Append(lg, [level |-> "CRITICAL", fmt |-> "Error occurred during process : %s",
                   args |-> e.args, str |-> e.fmt])
  ELSE lg

\* An exception raised at  where  inside the try block, with the log as
\* it is at that point.
Raise(e, where, lg) ==
  /\ pc' = "done"
  /\ exc' = Some([type |-> e.type, fmt |-> e.fmt, args |-> e.args, where |-> where])
  /\ escaped' = ~catches(e)
  /\ log' = handler(e, lg)

\* What config.json holds for a key (no such key, an empty string, a
\* value) and what the environment holds (unset, empty, a value).
FileChoice(k, c) ==
  IF c = 0 THEN None ELSE IF c = 1 THEN Some(<<>>) ELSE Some(FileValue(k))
EnvChoice(k, c) ==
  IF c = 0 THEN None ELSE IF c = 1 THEN Some(<<>>) ELSE Some(EnvValue(k))

Init ==
  /\ \E S \in {T \in SUBSET Keys : Cardinality(T) <= MaxOverrides} :
       \E fc \in [S -> 0..2], ec \in [S -> 0..2] :
         /\ \A k \in S : <<fc[k], ec[k]>> # <<2, 0>>
         /\ config_file \in
              {Some([k \in Keys |-> IF k \in S THEN FileChoice(k, fc[k])
                                    ELSE Some(FileValue(k))])}
              \cup (IF S = {} THEN {None} ELSE {})
         /\ environ = [k \in Keys |-> IF k \in S THEN EnvChoice(k, ec[k]) ELSE None]
  /\ preexisting \in BOOLEAN
  /\ file = IF preexisting THEN Some(OldFile) ELSE None
  /\ pc = "load_config"
  /\ config = None
  /\ anchors = <<>>
  /\ idx = 1
  /\ programs = <<>>
  /\ program_list = None
  /\ log = <<>>
  /\ requests_made = 0
  /\ error_response = FALSE
  /\ detail_fetched = 0
  /\ lacking = 0
  /\ exc = None
  /\ escaped = FALSE
  /\ opened = FALSE

\* Lines 21-32: open config.json and merge it with the environment.
LoadConfig ==
  /\ pc = "load_config"
  /\ UNCHANGED <<config_file, environ, preexisting, anchors, idx, programs,
                 program_list, requests_made, error_response, detail_fetched, lacking,
                 file, opened>>
  /\ IF IsNone(config_file)
     THEN /\ Raise(Exc("FileNotFoundError", "[Errno 2] No such file or directory: %s",
                       <<>>), "load_config", log)
          /\ UNCHANGED config
     ELSE LET merged == merge_config(Val(config_file), environ)
          IN  IF merged.ok
              THEN /\ config' = Some(merged.config)
                   /\ pc' = "check_config"
                   /\ UNCHANGED <<log, exc, escaped>>
              ELSE /\ Raise(merged.exc, "load_config", log)
                   /\ UNCHANGED config

\* Lines 34-39: the check of the merged values.
CheckConfig ==
  /\ pc = "check_config"
  /\ UNCHANGED <<config_file, environ, preexisting, config, anchors, idx, programs,
                 program_list, requests_made, error_response, detail_fetched, lacking,
                 file, opened>>
  /\ LET checked == check_config(Val(config))
     IN  IF checked.ok
         THEN /\ pc' = "get_programs"
              /\ UNCHANGED <<log, exc, escaped>>
         ELSE Raise(checked.exc, "load_config", log)

url == Val(config)[START_URL]

ConnectionError == Exc("ConnectionError", "%s", <<>>)

\* Lines 57-60 when requests.get raises.
ListingFetchFails ==
  /\ pc = "get_programs"
  /\ requests_made' = requests_made + 1
  /\ Raise(ConnectionError, "get_programs", log)
  /\ UNCHANGED <<config_file, environ, preexisting, config, anchors, idx, programs,
                 program_list, error_response, detail_fetched, lacking, file, opened>>

\* Lines 57-60: requests.get returns a response whatever its status code,
\* and its body is parsed.
GetListing ==
  /\ pc = "get_programs"
  /\ \E status \in StatusCodes, listing \in Listings :
       /\ requests_made' = requests_made + 1
       /\ error_response' = (error_response \/ status >= 400)
       /\ anchors' = listing
  /\ idx' = 1
  /\ programs' = <<>>
  /\ pc' = "loop"
  /\ UNCHANGED <<config_file, environ, preexisting, config, program_list, log,
                 detail_fetched, lacking, exc, escaped, file, opened>>

\* Line 63 for an anchor without href: page_link.attrs['href'] raises.
AnchorWithoutHref ==
  /\ pc = "loop" /\ idx <= Len(anchors)
  /\ IsNone(anchors[idx])
  /\ Raise(Exc("KeyError", "%s", <<<<"h","r","e","f">>>>), "get_programs", log)
  /\ UNCHANGED <<config_file, environ, preexisting, config, anchors, idx, programs,
                 program_list, requests_made, error_response, detail_fetched, lacking,
                 file, opened>>

page_url == urljoin(url, Val(anchors[idx]))

\* Lines 63-65 for a link that is not a detail page.
AnchorElsewhere ==
  /\ pc = "loop" /\ idx <= Len(anchors)
  /\ ~IsNone(anchors[idx])
  /\ \E here \in {page_url} : ~Contains(here, program_page)
  /\ idx' = idx + 1
  /\ UNCHANGED <<config_file, environ, preexisting, pc, config, anchors, programs,
                 program_list, log, requests_made, error_response, detail_fetched, lacking,
                 exc, escaped, file, opened>>

\* Lines 66-68 when requests.get raises.
DetailFetchFails ==
  /\ pc = "loop" /\ idx <= Len(anchors)
  /\ ~IsNone(anchors[idx])
  /\ \E here \in {page_url} :
       /\ Contains(here, program_page)
       /\ Raise(ConnectionError, "get_programs",
                Append(log, Log("INFO", "Parsing %s", <<here>>)))
  /\ requests_made' = requests_made + 1
  /\ UNCHANGED <<config_file, environ, preexisting, config, anchors, idx, programs,
                 program_list, error_response, detail_fetched, lacking, file, opened>>

\* Lines 66-103: one detail page received and handled.
DetailPage ==
  /\ pc = "loop" /\ idx <= Len(anchors)
  /\ ~IsNone(anchors[idx])
  /\ \E here \in {page_url} :
         /\ Contains(here, program_page)
         /\ \E status \in StatusCodes, parsed \in ParsedPages :
            \E program \in {extract(parsed, here)} :
              LET date_found == date_search(program.link)
                  parsing == Append(log, Log("INFO", "Parsing %s", <<here>>))
              IN  /\ error_response' = (error_response \/ status >= 400)
                  /\ lacking' = lacking +
                       (IF <<>> \in {program.title, program.description, program.link}
                        THEN 1 ELSE 0)
                  /\ IF incomplete(program)
                     THEN /\ log' = Append(parsing,
                                      Log("WARNING", "Cannot find all data for %s (%s)",
                                          <<program.title, here>>))
                          /\ UNCHANGED programs
                     ELSE IF ~IsNone(date_found)
                     THEN /\ programs' = Append(programs,
                                 [program EXCEPT !.date = Some(join(Val(date_found)))])
                          /\ log' = parsing
                     ELSE /\ programs' = Append(programs, program)
                          /\ log' = Append(parsing,
                                      Log("WARNING", "Cannot determine date of %s (%s)",
                                          <<program.title, here>>))
  /\ requests_made' = requests_made + 1
  /\ detail_fetched' = detail_fetched + 1
  /\ idx' = idx + 1
  /\ UNCHANGED <<config_file, environ, preexisting, pc, config, anchors, program_list,
                 exc, escaped, file, opened>>

\* Lines 105-108 and the assignment of line 149.
SortPrograms ==
  /\ pc = "loop" /\ idx > Len(anchors)
  /\ LET counted == Append(log, Log("INFO", "%i programs fetched", <<Len(programs)>>))
         result == sorted(programs)
     IN  IF result.ok
         THEN /\ program_list' = Some(result.value)
              /\ pc' = "build_rss_feed"
              /\ log' = counted
              /\ UNCHANGED <<exc, escaped>>
         ELSE /\ Raise(result.exc, "sorted", counted)
              /\ UNCHANGED program_list
  /\ UNCHANGED <<config_file, environ, preexisting, config, anchors, idx, programs,
                 requests_made, error_response, detail_fetched, lacking, file, opened>>

\* Lines 150-151: build_rss_feed, then main returns.
BuildRssFeed ==
  /\ pc = "build_rss_feed"
  /\ \E can_open \in BOOLEAN :
       LET cfg == Val(config)
           result == build_rss_feed(cfg[PROGRAM_TITLE], cfg[PROGRAM_URL], cfg[PROGRAM_DESC],
                                    Val(program_list), cfg[OUTPUT_FILE], file, can_open)
       IN  /\ file' = result.file
           /\ opened' = result.opened
           /\ IF result.ok
              THEN /\ pc' = "done"
                   /\ UNCHANGED <<log, exc, escaped>>
              ELSE Raise(result.exc, result.at, log)
  /\ UNCHANGED <<config_file, environ, preexisting, config, anchors, idx, programs,
                 program_list, requests_made, error_response, detail_fetched, lacking>>

Next ==
  \/ LoadConfig
  \/ CheckConfig
  \/ ListingFetchFails
  \/ GetListing
  \/ AnchorWithoutHref
  \/ AnchorElsewhere
  \/ DetailFetchFails
  \/ DetailPage
  \/ SortPrograms
  \/ BuildRssFeed

Spec == Init /\ [][Next]_vars

\* ------------------------------------------------------------------ claims
InitialFile == IF preexisting THEN Some(OldFile) ELSE None

Logged(level, fmt) == {i \in 1..Len(log) : log[i].level = level /\ log[i].fmt = fmt}
Criticals == {i \in 1..Len(log) : log[i].level = "CRITICAL"}

FeedWritten == ~IsNone(file) /\ file # Some(<<>>) /\ ~Val(file).old

\* C1: every record get_programs holds has a non-empty title, description
\* and link; a detail page whose extraction left one of the three empty
\* adds no record (the records are exactly the pages that lacked nothing)
\* and one "Cannot find all data" warning, and the step that handles it
\* raises nothing and moves the loop to the next anchor.
C1_Records ==
  /\ \A i \in 1..Len(programs) :
       /\ programs[i].title # <<>>
       /\ programs[i].description # <<>>
       /\ programs[i].link # <<>>
  /\ Len(programs) = detail_fetched - lacking
  /\ Cardinality(Logged("WARNING", "Cannot find all data for %s (%s)")) = lacking

C1_Step ==
  lacking' > lacking =>
    /\ programs' = programs
    /\ exc' = None /\ pc' = "loop" /\ idx' = idx + 1

C1_IncompletePagesSkipped == []C1_Records /\ [][C1_Step]_vars

\* A page was skipped for missing data, a later page was parsed, and a
\* record came out of the loop.
C1_Witness ==
  /\ Len(programs) >= 1
  /\ \E i \in Logged("WARNING", "Cannot find all data for %s (%s)") :
       \E j \in Logged("INFO", "Parsing %s") : i < j

\* The calendar position of a date string YYYY-MM-DD as a number.
DateNum(d) == 10000 * Num(SubSeq(d, 1, 4)) + 100 * Num(SubSeq(d, 6, 7)) + Num(SubSeq(d, 9, 10))

DistinctDates ==
  /\ \A i \in 1..Len(programs) : ~IsNone(programs[i].date)
  /\ \A i, j \in 1..Len(programs) : i # j => programs[i].date # programs[j].date

\* C2: when the records have distinct dates, what get_programs returns is
\* a permutation of them in which every record is strictly more recent
\* than the next one.
C2_SortedMostRecentFirst ==
  (~IsNone(program_list) /\ DistinctDates) =>
    LET out == Val(program_list)
    IN  /\ Len(out) = Len(programs)
        /\ \A i \in 1..Len(programs) : \E j \in 1..Len(out) : out[j] = programs[i]
        /\ \A i \in 1..(Len(out) - 1) :
             DateNum(Val(out[i].date)) > DateNum(Val(out[i + 1].date))

\* Two or more records with distinct dates were returned in another order
\* than the one the listing page gave.
C2_Witness ==
  /\ ~IsNone(program_list) /\ DistinctDates
  /\ Len(programs) >= 2
  /\ Val(program_list) # programs

\* The listing page and every detail page were fetched: get_programs left
\* its loop.
FetchedAll == IsNone(exc) \/ Val(exc).where \in {"sorted", "strptime", "open"}

\* C3: after a run that fetched every page (and could open its output
\* file), the file holds one item per record that passed the completeness
\* check, in the order of the aggregator, with the record's title, link
\* and description and the link as guid.
C3_OneItemPerRecord ==
  (pc = "done" /\ FetchedAll /\ ~(~IsNone(exc) /\ Val(exc).where = "open")) =>
    /\ FeedWritten
    /\ ~IsNone(program_list)
    /\ Len(Val(file).items) = Len(programs)
    /\ \A i \in 1..Len(Val(file).items) :
         LET item == Val(file).items[i]
             p == Val(program_list)[i]
         IN  /\ item.title = p.title /\ item.link = p.link
             /\ item.description = p.description /\ item.guid = p.link

NetworkFailure == ~IsNone(exc) /\ Val(exc).type = "ConnectionError"

\* C4: a run in which a fetch failed, by a network failure or by an HTTP
\* error response, ends with no file written and a critical message.
C4_FetchFailureAborts ==
  (pc = "done" /\ (NetworkFailure \/ error_response)) =>
    /\ file = InitialFile
    /\ Criticals # {}

\* C5: when one of the five merged values is the empty string, load_config
\* raises an error whose message names a field that is empty.
C5_ErrorNamesField ==
  (pc \notin {"load_config", "check_config"} /\ ~IsNone(config)
     /\ \E k \in Keys : Val(config)[k] = <<>>) =>
    /\ ~IsNone(exc) /\ Val(exc).where = "load_config"
    /\ \E k \in Keys :
         /\ Val(config)[k] = <<>>
         /\ \E i \in 1..Len(Val(exc).args) : Val(exc).args[i] = k

FileHasAllKeys == ~IsNone(config_file) /\ \A k \in Keys : ~IsNone(Val(config_file)[k])

\* C6 as stated: the merged value is the variable's value when the
\* variable is set and non-empty, the file's value otherwise.
C6_EmptyVariableIgnored ==
  ~IsNone(config) =>
    \A k \in Keys :
      Val(config)[k] = IF ~IsNone(environ[k]) /\ Val(environ[k]) # <<>>
                       THEN Val(environ[k])
                       ELSE Val(Val(config_file)[k])

\* C6, amended: when config.json holds all five keys, load_config merges
\* them, and the merged value is the variable's value whenever the
\* variable is set, the empty string included, and the file's value only
\* when the variable is unset.
C6_SetVariableWins ==
  (pc # "load_config" /\ FileHasAllKeys) =>
    /\ ~IsNone(config)
    /\ \A k \in Keys :
         Val(config)[k] = IF ~IsNone(environ[k])
                          THEN Val(environ[k])
                          ELSE Val(Val(config_file)[k])

\* A variable set to the empty string met a non-empty value of the file,
\* and the merged value is empty.
C6_Witness ==
  /\ ~IsNone(config)
  /\ \E k \in Keys :
       /\ environ[k] = Some(<<>>)
       /\ Val(config_file)[k] = Some(FileValue(k))
       /\ Val(config)[k] = <<>>

\* The configuration is missing (no file, a key absent from the file) or
\* a key resolves to the empty string.
ConfigBad ==
  \/ IsNone(config_file)
  \/ \E k \in Keys :
       \/ IsNone(Val(config_file)[k])
       \/ environ[k] = Some(<<>>)
       \/ (IsNone(environ[k]) /\ Val(config_file)[k] = Some(<<>>))

\* C7: in a run whose configuration is missing or has an empty value, no
\* GET is ever issued, the output file is never opened nor changed, and
\* the run ends in load_config.
C7_BadConfigNoNetwork ==
  ConfigBad =>
    /\ requests_made = 0
    /\ ~opened /\ file = InitialFile
    /\ pc \in {"load_config", "check_config", "done"}
    /\ pc = "done" => (~IsNone(exc) /\ Val(exc).where = "load_config")

\* A run with an empty resolved value has ended.
C7_Witness ==
  /\ pc = "done"
  /\ ~IsNone(config) /\ \E k \in Keys : Val(config)[k] = <<>>

\* Number of steps main can still take, at most.
Rank ==
  CASE pc = "done" -> 0
    [] pc = "build_rss_feed" -> 1
    [] pc = "loop" -> 2 + (Len(anchors) + 1 - idx)
    [] pc = "get_programs" -> MaxAnchors + 4
    [] pc = "check_config" -> MaxAnchors + 5
    [] pc = "load_config" -> MaxAnchors + 6

C8_Ended ==
  /\ Rank >= 0
  /\ pc = "done" =>
       /\ ~escaped
       /\ \/ IsNone(exc) /\ FeedWritten /\ Criticals = {}
          \/ ~IsNone(exc) /\ Cardinality(Criticals) = 1

\* C8: every run of main ends (every step brings the end nearer, and the
\* number of steps left is never negative); at its end no exception has left
\* main, and either nothing was raised, the feed is written and no
\* critical message is logged, or something was raised and exactly one
\* critical message is logged.
C8_MainEndsNormally == []C8_Ended /\ [][Rank' < Rank]_vars

\* A run ended on an exception that is not of class Exception itself.
C8_Witness ==
  /\ pc = "done" /\ ~IsNone(exc)
  /\ Val(exc).type \in {"TypeError", "ValueError"}

Lower(c) == IF c = "M" THEN "m" ELSE IF c = "P" THEN "p" ELSE c

\* The link ends in _YYYY_MM_DD.mp3, the extension in any case.
HasDateSuffix(link) ==
  /\ Len(link) >= 15
  /\ LET t == SubSeq(link, Len(link) - 14, Len(link))
     IN  /\ <<t[1], t[6], t[9], t[12]>> = <<"_", "_", "_", ".">>
         /\ {t[2], t[3], t[4], t[5], t[7], t[8], t[10], t[11]} \subseteq Digits
         /\ <<Lower(t[13]), Lower(t[14]), t[15]>> = <<"m", "p", "3">>

ExpectedDate(link) ==
  LET t == SubSeq(link, Len(link) - 14, Len(link))
  IN  <<t[2], t[3], t[4], t[5], "-", t[7], t[8], "-", t[10], t[11]>>

\* C9: the date of every record follows from its link: YYYY-MM-DD when the
\* link ends in _YYYY_MM_DD.mp3 (2023-07-04 for ..._2023_07_04.mp3), None
\* otherwise; every record without a date is in the list with one "Cannot
\* determine date" warning.
C9_DateFromLink ==
  /\ \A i \in 1..Len(programs) :
       LET p == programs[i]
       IN  /\ HasDateSuffix(p.link) => p.date = Some(ExpectedDate(p.link))
           /\ ~HasDateSuffix(p.link) => IsNone(p.date)
           /\ EndsWith(p.link, <<"_","2","0","2","3","_","0","7","_","0","4",".","m","p","3">>)
                => p.date = Some(<<"2","0","2","3","-","0","7","-","0","4">>)
  /\ Cardinality(Logged("WARNING", "Cannot determine date of %s (%s)"))
       = Cardinality({i \in 1..Len(programs) : IsNone(programs[i].date)})

\* The list holds a record dated 2023-07-04 and a record without a date.
C9_Witness ==
  /\ \E i \in 1..Len(programs) :
       programs[i].date = Some(<<"2","0","2","3","-","0","7","-","0","4">>)
  /\ \E i \in 1..Len(programs) : IsNone(programs[i].date)

\* C10: the output file is opened only when every record has a date that
\* parses; a run in which the sort or the date parsing raised never opened
\* the file, left the output path as it was, and ended with one critical
\* message.
C10_OpenedAfterItems ==
  /\ opened =>
       /\ ~IsNone(program_list)
       /\ \A i \in 1..Len(Val(program_list)) : strptime(Val(program_list)[i].date).ok
  /\ (~IsNone(exc) /\ Val(exc).where \in {"sorted", "strptime"}) =>
       /\ ~opened /\ file = InitialFile
       /\ pc = "done" /\ Cardinality(Criticals) = 1

\* A run over a pre-existing file ended on a date that is no calendar date.
C10_Witness ==
  /\ pc = "done" /\ preexisting /\ file = Some(OldFile)
  /\ ~IsNone(exc) /\ Val(exc).where = "strptime" /\ Val(exc).type = "ValueError"

====
